---- MODULE Spec2Model ----
(***************************************************************************)
(* Model of package signals (github.com/goaux/signals):                    *)
(*   Wait(ctx, signals...)            wait.go                              *)
(*   NotifyContext(parent, run, ...)  with its listener goroutine          *)
(*   FromContext(ctx), type Canceled                                       *)
(* together with the two collaborators the code drives: the os/signal      *)
(* handler table (Notify / Stop / delivery by non-blocking send) and the   *)
(* context tree (WithCancelCause, cancellation propagating to children).   *)
(*                                                                         *)
(* A step of the model is one statement of the code.  A select is the step *)
(* that commits to one of its ready cases; when several cases are ready    *)
(* the choice is nondeterministic, as in Go.                               *)
(***************************************************************************)
EXTENDS Integers, Sequences, FiniteSets, TLC

\* ---------------------------------------------------------------- bounds
MaxRaise == 2       \* signals raised in one behaviour

\* ------------------------------------------------------------- universes
Signals == {"SIGINT", "SIGTERM"}
\* the variadic signals argument, as a set: none, one signal, both
SignalSets == {{}, {"SIGINT"}, {"SIGINT", "SIGTERM"}}
Waiters == {"w1", "w2"}               \* goroutines calling Wait
Scopes == {"n1", "n2"}                \* goroutines calling NotifyContext
Callers == Waiters \cup Scopes        \* one channel ch per call
Roots == {"t1", "t2"}                 \* contexts made by the caller (WithCancel, WithTimeout)
\* the context each goroutine passes as ctx / parent: a caller-made context,
\* and for n2, which the run of n1 calls, the context that run was given
CtxArgs == [w1 |-> {"t1"}, w2 |-> {"t2"}, n1 |-> {"t1"}, n2 |-> {"c1"}]
ChildCtx == [n1 |-> "c1", n2 |-> "c2"]    \* ctx of WithCancelCause(parent) in each scope
Children == {ChildCtx[s] : s \in Scopes}
Contexts == Roots \cup Children
\* the goroutines one program runs: two waiters, two scopes, or one of each
Programs == {{"w1", "w2"}, {"n1", "n2"}, {"w1", "n1"}}
RunResults == {"nil", "err"}          \* what run may return
Panic == "panic"                      \* run terminating abnormally

ChanCap == 1                          \* make(chan os.Signal, 1)

\* ----------------------------------------------------------------- errors
NilErr == [type |-> "nil", signal |-> "nil"]
CtxCanceled == [type |-> "context.Canceled", signal |-> "nil"]
CtxDeadline == [type |-> "context.DeadlineExceeded", signal |-> "nil"]

\* Canceled{signal: sig}
Canceled(sig) == [type |-> "signals.Canceled", signal |-> sig]

MutUnwrapNil(e) == NilErr

\* func (s Canceled) Unwrap() error; the context package's errors wrap nothing
Unwrap(e) == IF e.type = "signals.Canceled" THEN CtxCanceled ELSE NilErr

\* func (s Canceled) Signal() os.Signal
CanceledSignal(e) == e.signal

\* errors.Is(err, target): walk the Unwrap chain
RECURSIVE ErrorsIs(_, _)
ErrorsIs(e, target) ==
    IF e = NilErr THEN FALSE
    ELSE IF e = target THEN TRUE
    ELSE ErrorsIs(Unwrap(e), target)

\* errors.As(err, &Canceled{}): first error of type Canceled in the chain
RECURSIVE ErrorsAsCanceled(_)
ErrorsAsCanceled(e) ==
    IF e = NilErr THEN NilErr
    ELSE IF e.type = "signals.Canceled" THEN e
    ELSE ErrorsAsCanceled(Unwrap(e))

VARIABLES
    procs,      \* the goroutines of the program
    ctxErr,     \* ctx.Err() of every context: NilErr, CtxCanceled or CtxDeadline
    ctxCause,   \* context.Cause(ctx)
    ctxParent,  \* parent of a scope's child context, "nil" before it is derived
    handlers,   \* os/signal handler table: per channel, registered and its mask
    ch,         \* the capacity-1 channel of every call
    pc,         \* position of every caller
    args,       \* the signals argument of the current call
    token,      \* the ctx argument of a waiter's current call
    ret,        \* value returned by Wait ("nil" for no signal)
    lpc,        \* position of each scope's listener goroutine
    runRet,     \* outcome of run
    result,     \* value returned by NotifyContext
    nRaised,    \* signals raised so far
    \* history, read by the properties only
    hQueued,    \* signal sent into the waiter's channel before its select, "nil" if none
    hRaised,    \* the distinct signals raised between a waiter's Notify and its
                \* select, in the order they were first raised
    hOrder,     \* which came first in the call: "signal" queued, token "done", or "nil"
    hRaisedIn,  \* a signal of the scope's set was raised since it registered
    hBy,        \* who canceled each context first
    hSig,       \* signal each listener received in its select, "nil" if none
    hSelects,   \* selects performed by each listener
    hCancels,   \* cancel calls made by each listener
    hAtCall,    \* the waiter's token was done when Wait was called
    hFirstIn,   \* first signal of the scope's set raised after its Notify and
                \* before its listener's select, "nil" if none
    hPreDone    \* the scope's parent was done when NotifyContext was called

progVars == <<procs, ctxErr, ctxCause, ctxParent, handlers, ch, pc, args, token, ret,
              lpc, runRet, result, nRaised>>
histVars == <<hQueued, hRaised, hOrder, hRaisedIn, hBy, hSig, hSelects, hCancels,
              hAtCall, hFirstIn, hPreDone>>
vars == <<progVars, histVars>>

Done(c) == ctxErr[c] # NilErr

\* contexts whose cancellation follows that of c (children map of cancelCtx)
RECURSIVE Descendants(_, _)
Descendants(par, c) ==
    LET kids == {d \in Children : par[d] = c}
    IN  kids \cup UNION {Descendants(par, d) : d \in kids}

\* ------------------------------------------------------ context package
\* contexts that cancel(c) marks: c and its descendants that are not done yet;
\* none when c is already done (the first cancellation wins)
Affected(c) ==
    IF Done(c) THEN {}
    ELSE {d \in {c} \cup Descendants(ctxParent, c) : ~Done(d)}

MutCancelOverwrites(c) == {c} \cup Descendants(ctxParent, c)

MutCancelNone(c) == {}

MutCancelUpward(c) ==
    Affected(c) \cup (IF c \in Children /\ ctxParent[c] # "nil" THEN {ctxParent[c]} ELSE {})

\* contexts whose err and cause a cancel call on c writes
CancelWrites(c) == Affected(c)

\* cancelCtx.cancel(removeFromParent, err, cause): cause defaults to err
CancelCtx(c, err, cause, who) ==
    LET hit == CancelWrites(c)
        why == IF cause = NilErr THEN err ELSE cause
    IN  /\ ctxErr' = [d \in Contexts |-> IF d \in hit THEN err ELSE ctxErr[d]]
        /\ ctxCause' = [d \in Contexts |-> IF d \in hit THEN why ELSE ctxCause[d]]
        /\ hBy' = [d \in Contexts |-> IF d \in hit THEN who ELSE hBy[d]]

\* first event of a waiter's call: its token becoming done
OrderOnDone(hit) ==
    [w \in Waiters |->
        IF pc[w] = "select" /\ hOrder[w] = "nil" /\ token[w] \in hit
        THEN "done" ELSE hOrder[w]]

\* the caller-made contexts the program uses
Tokens == Roots \cap UNION {CtxArgs[p] : p \in procs}

\* the caller's cancel() of a context.WithCancel / WithTimeout context
CancelRoot(t) ==
    /\ t \in Tokens
    /\ ~Done(t)
    /\ hOrder' = OrderOnDone(Affected(t))
    /\ CancelCtx(t, CtxCanceled, NilErr, "caller")
    /\ UNCHANGED <<procs, ctxParent, handlers, ch, pc, args, token, ret, lpc,
                   runRet, result, nRaised, hQueued, hRaised, hRaisedIn, hSig,
                   hSelects, hCancels, hAtCall, hFirstIn, hPreDone>>

\* the deadline of a context.WithTimeout context passing
TimeoutRoot(t) ==
    /\ t \in Tokens
    /\ ~Done(t)
    /\ hOrder' = OrderOnDone(Affected(t))
    /\ CancelCtx(t, CtxDeadline, NilErr, "deadline")
    /\ UNCHANGED <<procs, ctxParent, handlers, ch, pc, args, token, ret, lpc,
                   runRet, result, nRaised, hQueued, hRaised, hRaisedIn, hSig,
                   hSelects, hCancels, hAtCall, hFirstIn, hPreDone>>

\* ---------------------------------------------------------- os/signal
MutMaskNoWildcard(sigs) == sigs

\* signal.Notify(c, sig...): no signals means all signals
NotifyMask(sigs) == IF sigs = {} THEN Signals ELSE sigs

MutWantAll(h, sig) == h.reg

\* handler.want(sig) of a registered channel
Want(h, sig) == h.reg /\ sig \in h.mask

MutSendBlocking(q, sig) == Append(q, sig)

MutSendOverwrite(q, sig) == <<sig>>

\* select { case c <- sig: default: } on a channel of capacity 1
Send(q, sig) == IF Len(q) < ChanCap THEN Append(q, sig) ELSE q

MutDeliverOne(sig) ==
    LET first == CHOOSE p \in Callers :
                    Want(handlers[p], sig) \/ \A q \in Callers : ~Want(handlers[q], sig)
    IN  {p \in Callers : Want(handlers[p], sig) /\ p = first}

\* the channels a raised signal is sent to: every registered one that wants it
Receivers(sig) == {p \in Callers : Want(handlers[p], sig)}

MutStopKeeps(h) == h

\* signal.Stop(c): the channel leaves the handler table
Stop(h) == [reg |-> FALSE, mask |-> {}]

MutStopAll(tbl, p) == [q \in Callers |-> Stop(tbl[q])]

\* the handler table after signal.Stop on the channel of call p
Unregister(tbl, p) == [tbl EXCEPT ![p] = Stop(@)]

MutReuseChan(old) == old

\* ch := make(chan os.Signal, 1): a new, empty channel takes the place of the
\* one the variable held
MakeChan(old) == <<>>

\* a signal reaches the process and os/signal delivers it: one non-blocking
\* send to every registered channel that wants it.  The step stands for the
\* delivery; what happens between the kill and the delivery is part of the
\* interleaving before it.
Raise(sig) ==
    /\ nRaised < MaxRaise
    /\ nRaised' = nRaised + 1
    /\ ch' = [p \in Callers |->
                IF p \in Receivers(sig) THEN Send(ch[p], sig) ELSE ch[p]]
    /\ hQueued' = [w \in Waiters |->
                IF pc[w] = "select" /\ ch[w] = <<>> /\ ch'[w] # <<>>
                THEN sig ELSE hQueued[w]]
    /\ hRaised' = [w \in Waiters |->
                IF /\ pc[w] = "select"
                   /\ \A i \in DOMAIN hRaised[w] : hRaised[w][i] # sig
                THEN Append(hRaised[w], sig) ELSE hRaised[w]]
    /\ hOrder' = [w \in Waiters |->
                IF pc[w] = "select" /\ hOrder[w] = "nil" /\ ch'[w] # <<>>
                THEN "signal" ELSE hOrder[w]]
    /\ hRaisedIn' = [s \in Scopes |->
                hRaisedIn[s] \/ (handlers[s].reg /\ (args[s] = {} \/ sig \in args[s]))]
    /\ hFirstIn' = [s \in Scopes |->
                IF /\ hFirstIn[s] = "nil" /\ lpc[s] # "exited"
                   /\ pc[s] \in {"notified", "run", "deferred"}
                   /\ (args[s] = {} \/ sig \in args[s])
                THEN sig ELSE hFirstIn[s]]
    /\ UNCHANGED <<procs, ctxErr, ctxCause, ctxParent, handlers, pc, args, token,
                   ret, lpc, runRet, result, hBy, hSig, hSelects, hCancels, hAtCall,
                   hPreDone>>

\* ------------------------------------------------------------------ Wait
\* ch := make(chan os.Signal, 1); signal.Notify(ch, signals...); defer signal.Stop(ch)
WaitNotify(w, t, sigs) ==
    /\ w \in procs
    /\ pc[w] = "idle"
    /\ t \in CtxArgs[w]
    /\ token' = [token EXCEPT ![w] = t]
    /\ args' = [args EXCEPT ![w] = sigs]
    /\ ch' = [ch EXCEPT ![w] = MakeChan(@)]
    /\ handlers' = [handlers EXCEPT ![w] = [reg |-> TRUE, mask |-> NotifyMask(sigs)]]
    /\ ret' = [ret EXCEPT ![w] = "nil"]
    /\ pc' = [pc EXCEPT ![w] = "select"]
    /\ hQueued' = [hQueued EXCEPT ![w] = "nil"]
    /\ hRaised' = [hRaised EXCEPT ![w] = <<>>]
    /\ hOrder' = [hOrder EXCEPT ![w] = IF Done(t) THEN "done" ELSE "nil"]
    /\ hAtCall' = [hAtCall EXCEPT ![w] = Done(t)]
    /\ UNCHANGED <<procs, ctxErr, ctxCause, ctxParent, lpc, runRet, result, nRaised,
                   hRaisedIn, hSig, hBy, hSelects, hCancels, hFirstIn, hPreDone>>

MutSelectDefault(w) ==
    (IF ch[w] # <<>> THEN {Head(ch[w])} ELSE {}) \cup {"nil"}

MutSelectSignalOnly(w) ==
    IF ch[w] # <<>> THEN {Head(ch[w])} ELSE {}

\* the values the select of Wait can return: a ready case is chosen at random
WaitOutcomes(w) ==
    (IF ch[w] # <<>> THEN {Head(ch[w])} ELSE {})
        \cup (IF Done(token[w]) THEN {"nil"} ELSE {})

\* select { case sig := <-ch: return sig; case <-ctx.Done(): return nil }
WaitSelect(w) ==
    /\ pc[w] = "select"
    /\ \E v \in WaitOutcomes(w) :
        /\ ret' = [ret EXCEPT ![w] = v]
        /\ ch' = [ch EXCEPT ![w] = IF v = "nil" THEN @ ELSE Tail(@)]
    /\ pc' = [pc EXCEPT ![w] = "deferred"]
    /\ UNCHANGED <<procs, ctxErr, ctxCause, ctxParent, handlers, args, token, lpc,
                   runRet, result, nRaised, histVars>>

\* the deferred signal.Stop(ch), then Wait returns
WaitStop(w) ==
    /\ pc[w] = "deferred"
    /\ handlers' = Unregister(handlers, w)
    /\ pc' = [pc EXCEPT ![w] = "returned"]
    /\ UNCHANGED <<procs, ctxErr, ctxCause, ctxParent, ch, args, token, ret, lpc,
                   runRet, result, nRaised, histVars>>

\* the waiter goroutine goes on to call Wait again; the history of the call
\* that returned ends here
WaitAgain(w) ==
    /\ pc[w] = "returned"
    /\ pc' = [pc EXCEPT ![w] = "idle"]
    /\ hQueued' = [hQueued EXCEPT ![w] = "nil"]
    /\ hRaised' = [hRaised EXCEPT ![w] = <<>>]
    /\ hOrder' = [hOrder EXCEPT ![w] = "nil"]
    /\ hAtCall' = [hAtCall EXCEPT ![w] = FALSE]
    /\ UNCHANGED <<procs, ctxErr, ctxCause, ctxParent, handlers, ch, args, token,
                   ret, lpc, runRet, result, nRaised, hRaisedIn, hBy, hSig,
                   hSelects, hCancels, hFirstIn, hPreDone>>

\* ---------------------------------------------------------- NotifyContext
\* contexts a scope can be given as parent: a caller-made context, or the
\* context of a scope whose run is executing
Parents == Roots \cup {ChildCtx[o] : o \in {x \in Scopes : pc[x] = "run"}}

\* the scopes whose NotifyContext call was made by the run of s and is not over
Nested(s) ==
    {o \in Scopes : ctxParent[ChildCtx[o]] = ChildCtx[s] /\ pc[o] # "returned"}

\* ctx, cancel := context.WithCancelCause(parent); defer cancel(nil)
NCDerive(s, parent, sigs) ==
    LET c == ChildCtx[s]
    IN  /\ s \in procs
        /\ pc[s] = "idle"
        /\ parent \in CtxArgs[s] \cap Parents
        /\ args' = [args EXCEPT ![s] = sigs]
        /\ ctxParent' = [ctxParent EXCEPT ![c] = parent]
        /\ ctxErr' = [ctxErr EXCEPT ![c] = ctxErr[parent]]
        /\ ctxCause' = [ctxCause EXCEPT ![c] = ctxCause[parent]]
        /\ hBy' = [hBy EXCEPT ![c] = hBy[parent]]
        /\ hPreDone' = [hPreDone EXCEPT ![s] = Done(parent)]
        /\ pc' = [pc EXCEPT ![s] = "derived"]
        /\ UNCHANGED <<procs, handlers, ch, token, ret, lpc, runRet, result,
                       nRaised, hQueued, hRaised, hOrder, hRaisedIn, hSig, hSelects,
                       hCancels, hAtCall, hFirstIn>>

\* ch := make(chan os.Signal, 1); signal.Notify(ch, signals...); defer signal.Stop(ch)
NCNotify(s) ==
    /\ pc[s] = "derived"
    /\ ch' = [ch EXCEPT ![s] = MakeChan(@)]
    /\ handlers' = [handlers EXCEPT ![s] = [reg |-> TRUE, mask |-> NotifyMask(args[s])]]
    /\ pc' = [pc EXCEPT ![s] = "notified"]
    /\ UNCHANGED <<procs, ctxErr, ctxCause, ctxParent, args, token, ret, lpc,
                   runRet, result, nRaised, histVars>>

MutAlwaysListen(s) == TRUE

\* if ctx.Err() == nil { go func() {...}() }
StartsListener(s) == ~Done(ChildCtx[s])

\* the listener is started when the context is live, and run(c) is called
NCRun(s) ==
    /\ pc[s] = "notified"
    /\ lpc' = [lpc EXCEPT ![s] = IF StartsListener(s) THEN "select" ELSE "none"]
    /\ pc' = [pc EXCEPT ![s] = "run"]
    /\ UNCHANGED <<procs, ctxErr, ctxCause, ctxParent, handlers, ch, args, token,
                   ret, runRet, result, nRaised, histVars>>

MutListenerCancelNil(sig) == NilErr

\* the cause the listener cancels with: Canceled{signal: sig}
ListenerCause(sig) == Canceled(sig)

\* listener: select { case sig := <-ch: cancel(Canceled{signal: sig}) ... }
ListenerSignal(s) ==
    /\ lpc[s] = "select"
    /\ ch[s] # <<>>
    /\ ch' = [ch EXCEPT ![s] = Tail(@)]
    /\ CancelCtx(ChildCtx[s], CtxCanceled, ListenerCause(Head(ch[s])), s)
    /\ hOrder' = OrderOnDone(Affected(ChildCtx[s]))
    /\ hSig' = [hSig EXCEPT ![s] = Head(ch[s])]
    /\ hSelects' = [hSelects EXCEPT ![s] = @ + 1]
    /\ hCancels' = [hCancels EXCEPT ![s] = @ + 1]
    /\ lpc' = [lpc EXCEPT ![s] = "exited"]
    /\ UNCHANGED <<procs, ctxParent, handlers, pc, args, token, ret, runRet, result,
                   nRaised, hQueued, hRaised, hRaisedIn, hAtCall, hFirstIn,
                   hPreDone>>

\* listener: select { ... case <-ctx.Done(): }
ListenerDone(s) ==
    /\ lpc[s] = "select"
    /\ Done(ChildCtx[s])
    /\ hSelects' = [hSelects EXCEPT ![s] = @ + 1]
    /\ lpc' = [lpc EXCEPT ![s] = "exited"]
    /\ UNCHANGED <<procs, ctxErr, ctxCause, ctxParent, handlers, ch, pc, args,
                   token, ret, runRet, result, nRaised, hQueued, hRaised, hOrder,
                   hRaisedIn, hSig, hBy, hCancels, hAtCall, hFirstIn, hPreDone>>

\* run(c) comes back: with a value, or by panicking
RunReturn(s, r) ==
    /\ pc[s] = "run"
    /\ Nested(s) = {}
    /\ runRet' = [runRet EXCEPT ![s] = r]
    /\ pc' = [pc EXCEPT ![s] = "deferred"]
    /\ UNCHANGED <<procs, ctxErr, ctxCause, ctxParent, handlers, ch, args, token,
                   ret, lpc, result, nRaised, histVars>>

\* the deferred signal.Stop(ch), the later defer, runs first
NCStop(s) ==
    /\ pc[s] = "deferred"
    /\ handlers' = Unregister(handlers, s)
    /\ pc' = [pc EXCEPT ![s] = "stopped"]
    /\ UNCHANGED <<procs, ctxErr, ctxCause, ctxParent, ch, args, token, ret, lpc,
                   runRet, result, nRaised, histVars>>

MutReturnCtxErr(s) ==
    IF runRet[s] = "nil" /\ Done(ChildCtx[s]) THEN "err" ELSE runRet[s]

\* return run(c): the value of run, or its panic going on to the caller
ReturnValue(s) == runRet[s]

\* the deferred cancel(nil), then NotifyContext returns
NCCancel(s) ==
    /\ pc[s] = "stopped"
    /\ CancelCtx(ChildCtx[s], CtxCanceled, NilErr, "cleanup")
    /\ hOrder' = OrderOnDone(Affected(ChildCtx[s]))
    /\ result' = [result EXCEPT ![s] = ReturnValue(s)]
    /\ pc' = [pc EXCEPT ![s] = "returned"]
    /\ UNCHANGED <<procs, ctxParent, handlers, ch, args, token, ret, lpc, runRet,
                   nRaised, hQueued, hRaised, hRaisedIn, hSig, hSelects, hCancels,
                   hAtCall, hFirstIn, hPreDone>>

\* ------------------------------------------------------------ FromContext
MutFromContextAnyCancel(c) ==
    IF Done(c) THEN <<ctxCause[c].signal, TRUE>> ELSE <<"nil", FALSE>>

\* var err Canceled; if errors.As(context.Cause(ctx), &err) { return err.Signal(), true }
FromContext(c) ==
    LET err == ErrorsAsCanceled(ctxCause[c])
    IN  IF err # NilErr THEN <<CanceledSignal(err), TRUE>> ELSE <<"nil", FALSE>>

\* ------------------------------------------------------- specification
Init ==
    /\ procs \in Programs
    /\ ctxErr = [c \in Contexts |-> NilErr]
    /\ ctxCause = [c \in Contexts |-> NilErr]
    /\ ctxParent = [c \in Children |-> "nil"]
    /\ handlers = [p \in Callers |-> [reg |-> FALSE, mask |-> {}]]
    /\ ch = [p \in Callers |-> <<>>]
    /\ pc = [p \in Callers |-> "idle"]
    /\ args = [p \in Callers |-> {}]
    /\ token = [w \in Waiters |-> "nil"]
    /\ ret = [w \in Waiters |-> "nil"]
    /\ lpc = [s \in Scopes |-> "none"]
    /\ runRet = [s \in Scopes |-> "nil"]
    /\ result = [s \in Scopes |-> "nil"]
    /\ nRaised = 0
    /\ hQueued = [w \in Waiters |-> "nil"]
    /\ hRaised = [w \in Waiters |-> <<>>]
    /\ hOrder = [w \in Waiters |-> "nil"]
    /\ hRaisedIn = [s \in Scopes |-> FALSE]
    /\ hBy = [c \in Contexts |-> "nil"]
    /\ hSig = [s \in Scopes |-> "nil"]
    /\ hSelects = [s \in Scopes |-> 0]
    /\ hCancels = [s \in Scopes |-> 0]
    /\ hPreDone = [s \in Scopes |-> FALSE]
    /\ hFirstIn = [s \in Scopes |-> "nil"]
    /\ hAtCall = [w \in Waiters |-> FALSE]

\* the environment: cancellations, deadlines, signals
EnvNext ==
    \/ \E t \in Roots : CancelRoot(t)
    \/ \E t \in Roots : TimeoutRoot(t)
    \/ \E sig \in Signals : Raise(sig)

\* the goroutines calling Wait
WaitNext ==
    \/ \E w \in Waiters, t \in Roots, sigs \in SignalSets : WaitNotify(w, t, sigs)
    \/ \E w \in Waiters : WaitSelect(w)
    \/ \E w \in Waiters : WaitStop(w)
    \/ \E w \in Waiters : WaitAgain(w)

\* the goroutines calling NotifyContext, and their listeners
ScopeNext ==
    \/ \E s \in Scopes, parent \in Contexts, sigs \in SignalSets : NCDerive(s, parent, sigs)
    \/ \E s \in Scopes : NCNotify(s)
    \/ \E s \in Scopes : NCRun(s)
    \/ \E s \in Scopes : ListenerSignal(s)
    \/ \E s \in Scopes : ListenerDone(s)
    \/ \E s \in Scopes, r \in RunResults \cup {Panic} : RunReturn(s, r)
    \/ \E s \in Scopes : NCStop(s)
    \/ \E s \in Scopes : NCCancel(s)

Next == EnvNext \/ WaitNext \/ ScopeNext

Spec == Init /\ [][Next]_vars

\* the scheduler runs every goroutine that can take a step: a ready select,
\* a deferred call, the statements of NotifyContext.  Calls being made,
\* signals, cancellations and the return of run are up to the environment.
WaitFairness ==
    \A w \in Waiters : WF_vars(WaitSelect(w)) /\ WF_vars(WaitStop(w))

ScopeFairness ==
    \A s \in Scopes :
        /\ WF_vars(NCNotify(s)) /\ WF_vars(NCRun(s))
        /\ WF_vars(ListenerSignal(s) \/ ListenerDone(s))
        /\ WF_vars(NCStop(s)) /\ WF_vars(NCCancel(s))

\* a program of waiters only, fairly scheduled
WaitInit == Init /\ procs = {"w1", "w2"}

FairWaitSpec == WaitInit /\ [][EnvNext \/ WaitNext]_vars /\ WaitFairness

\* a program of scopes only, fairly scheduled
ScopeInit == Init /\ procs = {"n1", "n2"}

FairScopeSpec == ScopeInit /\ [][EnvNext \/ ScopeNext]_vars /\ ScopeFairness

\* ------------------------------------------------------------ properties
Returned(w) == pc[w] \in {"deferred", "returned"}

\* the first signal raised after the waiter's registration, "nil" if none
First(w) == IF hRaised[w] = <<>> THEN "nil" ELSE Head(hRaised[w])

\* the signal raised while the waiter was blocked: registered, nothing queued
\* before it, its token not done
Blocked(w) == IF hOrder[w] = "signal" THEN hQueued[w] ELSE "nil"

\* the first signal of the waiter's set raised after its Notify and before its
\* select, "nil" if none
RECURSIVE FirstOf(_, _)
FirstOf(seq, sigs) ==
    IF seq = <<>> THEN "nil"
    ELSE IF sigs = {} \/ Head(seq) \in sigs THEN Head(seq)
    ELSE FirstOf(Tail(seq), sigs)

FirstWanted(w) == FirstOf(hRaised[w], args[w])

\* C1 as stated: for every nonempty signal set S and X in S, X raised while
\* Wait(token, S) is blocked makes Wait return X.
C1_Original ==
    \A w \in Waiters :
        (Returned(w) /\ args[w] # {} /\ Blocked(w) # "nil") => ret[w] = Blocked(w)

\* C1 amended: X raised while Wait(token, S) is blocked makes Wait return, and
\* it returns X, or none when the token became done before the select chose.
C1_BlockedSignalReturned ==
    /\ [](\A w \in Waiters :
            (Returned(w) /\ args[w] # {} /\ Blocked(w) # "nil") =>
                \/ ret[w] = Blocked(w)
                \/ ret[w] = "nil" /\ Done(token[w]))
    /\ \A w \in Waiters :
            (pc[w] = "select" /\ args[w] # {} /\ Blocked(w) # "nil") ~> Returned(w)

C1_Witness ==
    \E w \in Waiters :
        /\ pc[w] = "returned" /\ args[w] = {"SIGINT", "SIGTERM"}
        /\ Blocked(w) = "SIGTERM" /\ ret[w] = "SIGTERM"

\* C2 as stated: Wait returns none if and only if the token became done before
\* any signal of S arrived in the queue; a signal queued before the token
\* became done is always the value returned.
C2_Original ==
    \A w \in Waiters : Returned(w) => (ret[w] = "nil" <=> hOrder[w] = "done")

\* C2 amended: Wait returns none only if the token is done at its select and a
\* signal only if that signal was queued; with the token done and nothing
\* queued it returns none, with a signal queued and the token not done it
\* returns the signal, and with both at the select either one, whichever
\* came first.
C2_NoneOnlyWhenDone ==
    \A w \in Waiters : Returned(w) =>
        /\ ret[w] = "nil" => Done(token[w])
        /\ ret[w] # "nil" => ret[w] = hQueued[w]
        /\ (hOrder[w] = "done" /\ hQueued[w] = "nil") => ret[w] = "nil"
        /\ (hOrder[w] = "signal" /\ ~Done(token[w])) => ret[w] = hQueued[w]

C2_Witness ==
    \E w \in Waiters :
        /\ pc[w] = "returned" /\ hOrder[w] = "done"
        /\ hQueued[w] # "nil" /\ ret[w] = hQueued[w]

\* C3: two concurrent calls Wait(token1, S1), Wait(token2, S2), both
\* subscribed with X in both sets when X is raised once: X is sent to both
\* channels, one call receiving it leaves it in the other's channel, and each
\* call whose token is not done returns X.
C3_Broadcast ==
    \A X \in Signals :
        (/\ nRaised = 1
         /\ \A w \in Waiters : pc[w] # "idle" /\ First(w) = X /\ X \in args[w])
        => \A w \in Waiters :
            /\ hQueued[w] = X
            /\ pc[w] = "select" => ch[w] = <<X>>
            /\ (Returned(w) /\ ~Done(token[w])) => ret[w] = X

C3_Witness ==
    /\ nRaised = 1
    /\ token["w1"] # token["w2"]
    /\ \A w \in Waiters :
        /\ pc[w] = "returned" /\ args[w] = {"SIGINT"} /\ First(w) = "SIGINT"
        /\ ~Done(token[w]) /\ ret[w] = "SIGINT"

\* C4: NotifyContext returns the value run returned, unaltered, whether or not
\* a signal arrived, the parent was canceled or the context was done at the start.
C4_RunResultUnaltered ==
    \A s \in Scopes : pc[s] = "returned" => result[s] = runRet[s]

C4_Witness ==
    \E s \in Scopes :
        /\ pc[s] = "returned" /\ runRet[s] = "nil" /\ result[s] = "nil"
        /\ hBy[ChildCtx[s]] = s

ParentOf(s) == ctxParent[ChildCtx[s]]

\* C5: while run executes, the context it was given is done only if the parent
\* is done or a signal of S was raised since the scope subscribed, and once
\* either has happened the context becomes done.
C5_DoneExactlyWhen ==
    /\ [](\A s \in Scopes :
            (pc[s] = "run" /\ Done(ChildCtx[s])) =>
                (Done(ParentOf(s)) \/ hRaisedIn[s]))
    /\ \A s \in Scopes :
            (pc[s] = "run" /\ (Done(ParentOf(s)) \/ hRaisedIn[s]))
                ~> Done(ChildCtx[s])

C5_Witness ==
    \E s \in Scopes :
        /\ pc[s] = "run" /\ Done(ChildCtx[s]) /\ ~Done(ParentOf(s))
        /\ hRaisedIn[s] /\ hBy[ChildCtx[s]] = s

\* C6 as stated: FromContext returns (X, true) exactly when the scope's own
\* listener canceled the context with the signal X it received, and
\* (nil, false) otherwise, parent-driven cancellation included.
C6_Original ==
    \A s \in Scopes :
        FromContext(ChildCtx[s]) =
            IF hBy[ChildCtx[s]] = s THEN <<hSig[s], TRUE>> ELSE <<"nil", FALSE>>

\* C6 amended: FromContext returns (X, true) exactly when the context was
\* first canceled by a listener that received X: the listener of its own
\* scope, or that of an enclosing scope whose context is an ancestor (the
\* cause is inherited); it returns (nil, false) in every other state.
C6_SignalCause ==
    \A c \in Contexts :
        /\ FromContext(c) =
            IF hBy[c] \in Scopes THEN <<hSig[hBy[c]], TRUE>> ELSE <<"nil", FALSE>>
        /\ hBy[c] \in Scopes =>
            /\ hSig[hBy[c]] \in Signals
            /\ c \in {ChildCtx[hBy[c]]} \cup Descendants(ctxParent, ChildCtx[hBy[c]])

C6_Witness ==
    /\ pc["n2"] = "run" /\ hBy["c2"] = "n1"
    /\ FromContext("c2") = <<"SIGINT", TRUE>>

\* C7: once a call of Wait or NotifyContext has returned, on any exit path,
\* its channel is out of the handler table, as before the call, and no signal
\* raised afterwards is put in its queue.
C7_Unsubscribed ==
    /\ [](\A p \in Callers :
            pc[p] = "returned" => handlers[p] = [reg |-> FALSE, mask |-> {}])
    /\ [][\A p \in Callers :
            (pc[p] = "returned" /\ pc'[p] = "returned") =>
                (ch'[p] = ch[p] \/ ch'[p] = <<>>)]_vars

C7_Witness ==
    /\ pc["w1"] = "returned" /\ hOrder["w1"] = "done" /\ hRaised["w1"] = <<>>
    /\ pc["n1"] = "returned" /\ runRet["n1"] = Panic
    /\ nRaised = MaxRaise

\* C8: a context canceled by a signal X has a cause that unwraps to
\* context.Canceled, an Err of context.Canceled, and still yields X through
\* FromContext and Canceled.Signal.
C8_CauseComposes ==
    \A c \in Children :
        hBy[c] \in Scopes =>
            /\ ErrorsIs(ctxCause[c], CtxCanceled)
            /\ ctxErr[c] = CtxCanceled
            /\ FromContext(c) = <<hSig[hBy[c]], TRUE>>
            /\ CanceledSignal(ErrorsAsCanceled(ctxCause[c])) = hSig[hBy[c]]
            /\ hSig[hBy[c]] \in Signals

C8_Witness ==
    \E s \in Scopes :
        /\ pc[s] = "run" /\ hBy[ChildCtx[s]] = s
        /\ ctxCause[ChildCtx[s]] = Canceled("SIGTERM")

\* C9: Wait with no signals listed is sent every signal, whatever its type,
\* and the signal it returns is the first one raised after it registered,
\* also when more were raised before its select.
C9_WildcardFirst ==
    \A w \in Waiters :
        args[w] = {} =>
            /\ (pc[w] = "select" /\ hRaised[w] # <<>>) => ch[w] = <<First(w)>>
            /\ Returned(w) =>
                /\ ret[w] # "nil" => ret[w] = First(w)
                /\ (hRaised[w] # <<>> /\ ~Done(token[w])) => ret[w] = First(w)

C9_Witness ==
    \E w \in Waiters :
        /\ pc[w] = "returned" /\ args[w] = {}
        /\ hRaised[w] = <<"SIGTERM", "SIGINT">> /\ ret[w] = "SIGTERM"

\* C10: with a nonempty signal list S only members of S are sent to the
\* call's channel, so Wait returns none or a member of S, and the signal a
\* scope's listener cancels with is a member of S.
C10_OnlySubscribed ==
    /\ \A w \in Waiters :
        args[w] # {} =>
            /\ \A i \in DOMAIN ch[w] : ch[w][i] \in args[w]
            /\ Returned(w) => ret[w] \in args[w] \cup {"nil"}
            /\ (pc[w] = "select" /\ \A i \in DOMAIN hRaised[w] : hRaised[w][i] \notin args[w])
                    => ch[w] = <<>>
    /\ \A s \in Scopes :
        args[s] # {} =>
            /\ \A i \in DOMAIN ch[s] : ch[s][i] \in args[s]
            /\ hSig[s] # "nil" => hSig[s] \in args[s]

C10_Witness ==
    /\ \E w \in Waiters :
        /\ pc[w] = "returned" /\ args[w] = {"SIGINT"}
        /\ hRaised[w] = <<"SIGTERM", "SIGINT">> /\ ret[w] = "SIGINT"
    /\ \E s \in Scopes :
        /\ args[s] = {"SIGINT"} /\ hSig[s] = "SIGINT" /\ nRaised = MaxRaise

\* C11: a token already done when Wait is called makes Wait return without
\* waiting for a signal: its select can take the done case at once, so the
\* call returns; with no signal raised during the call it returns none; and
\* when it has returned its subscription is released.
C11_DoneAtCallReturnsNone ==
    /\ [](\A w \in Waiters : hAtCall[w] =>
            /\ pc[w] = "select" => "nil" \in WaitOutcomes(w)
            /\ (Returned(w) /\ hRaised[w] = <<>>) => ret[w] = "nil"
            /\ pc[w] = "returned" => ~handlers[w].reg)
    /\ \A w \in Waiters : (pc[w] = "select" /\ hAtCall[w]) ~> pc[w] = "returned"

C11_Witness ==
    \E w \in Waiters :
        /\ hAtCall[w] /\ pc[w] = "returned" /\ hRaised[w] = <<>>
        /\ ret[w] = "nil" /\ ~handlers[w].reg

\* C12: Wait reports no error and ends in one of two outcomes, a signal or
\* none: what it returns is a signal of its subscription or none, and once
\* its token is done or a subscribed signal has arrived in its queue, the
\* call returns.
C12_WaitTerminates ==
    /\ [](\A w \in Waiters : Returned(w) =>
            \/ ret[w] = "nil"
            \/ ret[w] \in Signals /\ (args[w] = {} \/ ret[w] \in args[w]))
    /\ \A w \in Waiters :
            (pc[w] = "select" /\ (Done(token[w]) \/ ch[w] # <<>>)) ~> pc[w] = "returned"

C12_Witness ==
    /\ pc["w1"] = "returned" /\ ret["w1"] \in Signals /\ ~Done(token["w1"])
    /\ pc["w2"] = "returned" /\ ret["w2"] = "nil" /\ Done(token["w2"])

\* C13: the cause of a context is written once: whatever the order of the
\* listener's cancel with a signal cause, the deferred cancel(nil) and the
\* cancellation of the parent, once a context is done no step changes its
\* error or its cause.
C13_CauseWriteOnce ==
    [][\A c \in Contexts : Done(c) =>
            ctxErr'[c] = ctxErr[c] /\ ctxCause'[c] = ctxCause[c]]_vars

C13_Witness ==
    /\ hBy["c1"] = "n1" /\ ctxCause["c1"] = Canceled("SIGINT")
    /\ Done("t1") /\ pc["n1"] = "returned" /\ hRaisedIn["n1"] /\ nRaised = MaxRaise

\* C14: when NotifyContext has returned, its subscription is released and its
\* child context is done, so the listener goroutine, if one was started,
\* exits, whether or not a signal arrived; a listener performs at most one
\* select and makes at most one cancel call.
C14_ListenerTerminates ==
    /\ [](\A s \in Scopes :
            /\ hSelects[s] <= 1 /\ hCancels[s] <= hSelects[s]
            /\ lpc[s] = "select" => hSelects[s] = 0
            /\ pc[s] = "returned" => ~handlers[s].reg /\ Done(ChildCtx[s]))
    /\ \A s \in Scopes : pc[s] = "returned" ~> lpc[s] \in {"none", "exited"}

C14_Witness ==
    \E s \in Scopes :
        /\ pc[s] = "returned" /\ lpc[s] = "exited" /\ ~hRaisedIn[s]
        /\ hSelects[s] = 1 /\ hCancels[s] = 0 /\ hBy[ChildCtx[s]] = "cleanup"

\* C15: a signal raised after the subscription is registered and before the
\* waiter reaches its select is not lost: until the select of Wait or of the
\* listener runs, the first such signal is the one held in the queue, and a
\* select that runs while the token or context is not done takes it: Wait
\* returns it, the listener makes it the cause.
C15_EarlySignalKept ==
    /\ [](/\ \A w \in Waiters :
                (pc[w] = "select" /\ FirstWanted(w) # "nil") => ch[w] = <<FirstWanted(w)>>
           /\ \A s \in Scopes :
                (lpc[s] # "exited" /\ hFirstIn[s] # "nil") => ch[s] = <<hFirstIn[s]>>)
    /\ [][/\ \A w \in Waiters :
                (pc[w] = "select" /\ pc'[w] # "select" /\ ~Done(token[w])) =>
                    FirstWanted(w) # "nil" /\ ret'[w] = FirstWanted(w)
           /\ \A s \in Scopes :
                (lpc[s] = "select" /\ lpc'[s] = "exited" /\ ~Done(ChildCtx[s])) =>
                    /\ hFirstIn[s] # "nil"
                    /\ ctxCause'[ChildCtx[s]] = Canceled(hFirstIn[s])]_vars

\* a signal raised before the select, of Wait and of the listener, is what Wait
\* returns and what the listener makes the cause, a later signal being dropped
C15_Witness ==
    /\ pc["w1"] = "returned" /\ FirstWanted("w1") = "SIGTERM" /\ ret["w1"] = "SIGTERM"
    /\ lpc["n1"] = "exited" /\ hFirstIn["n1"] = "SIGTERM"
    /\ ctxCause["c1"] = Canceled("SIGTERM") /\ nRaised = MaxRaise

\* C16: when the parent is already done at the call of NotifyContext, the
\* child context is done from the start, no listener is started and no cancel
\* call is made for a signal, run is still called, with that done context, and
\* a signal raised during run does not become the cause: the cause is the
\* parent's, so FromContext reports a signal only if the parent's cause is a
\* signal cause.
C16_NoListenerWhenDone ==
    /\ [](\A s \in Scopes : hPreDone[s] =>
            LET c == ChildCtx[s]
            IN  /\ Done(c)
                /\ lpc[s] = "none" /\ hSig[s] = "nil" /\ hCancels[s] = 0
                /\ ctxCause[c] = ctxCause[ParentOf(s)]
                /\ FromContext(c) = FromContext(ParentOf(s))
                /\ ErrorsAsCanceled(ctxCause[ParentOf(s)]) = NilErr =>
                        FromContext(c) = <<"nil", FALSE>>)
    /\ \A s \in Scopes : (pc[s] = "derived" /\ hPreDone[s]) ~> pc[s] = "run"

C16_Witness ==
    /\ hPreDone["n1"] /\ pc["n1"] = "run" /\ lpc["n1"] = "none"
    /\ hRaisedIn["n1"] /\ ch["n1"] # <<>> /\ FromContext("c1") = <<"nil", FALSE>>

\* a call between its signal.Notify and its signal.Stop
InCall(p) ==
    IF p \in Waiters THEN pc[p] \in {"select", "deferred"}
    ELSE pc[p] \in {"notified", "run", "deferred"}

\* C17: releasing one call's subscription leaves the others as they were: a
\* call is subscribed to its set from its Notify to its own Stop whatever the
\* other calls do, the step that releases one subscription changes no other
\* subscription and no other queue, and a raised signal is placed in the empty
\* queue of every call that is subscribed to it.
C17_ReleaseFrame ==
    /\ [](\A q \in Callers : InCall(q) =>
            /\ handlers[q].reg
            /\ \A sig \in Signals :
                    sig \in handlers[q].mask <=> (args[q] = {} \/ sig \in args[q]))
    /\ [][\A p \in Callers : (handlers[p].reg /\ ~handlers'[p].reg) =>
                \A q \in Callers \ {p} : handlers'[q] = handlers[q] /\ ch'[q] = ch[q]]_vars
    /\ [][nRaised' # nRaised =>
            \E sig \in Signals : \A q \in Callers : (InCall(q) /\ ch[q] = <<>>) =>
                ch'[q] = IF args[q] = {} \/ sig \in args[q] THEN <<sig>> ELSE <<>>]_vars

\* w1 and w2 were subscribed together when SIGTERM was raised; w1 returned it
\* and unsubscribed; SIGINT, raised after that, reached w2
C17_Witness ==
    /\ pc["w1"] = "returned" /\ args["w1"] = {} /\ hRaised["w1"] = <<"SIGTERM">>
    /\ ret["w1"] = "SIGTERM" /\ ch["w1"] = <<>> /\ ~handlers["w1"].reg
    /\ pc["w2"] = "select" /\ args["w2"] = {"SIGINT"} /\ handlers["w2"].reg
    /\ hRaised["w2"] = <<"SIGTERM", "SIGINT">> /\ ch["w2"] = <<"SIGINT">>

\* C18: neither Wait nor NotifyContext cancels the context it is given: no
\* step of a Wait call changes the done state or the cause of any context; no
\* step of a scope or of its listener, its cancel with a signal cause and its
\* deferred cancel(nil) included, changes those of the scope's parent; and a
\* caller-made context becomes done only by its caller's cancel or deadline.
C18_GivenContextUntouched ==
    [][/\ \A w \in Waiters :
            pc'[w] # pc[w] => ctxErr' = ctxErr /\ ctxCause' = ctxCause
       /\ \A s \in Scopes :
            (pc'[s] # pc[s] \/ lpc'[s] # lpc[s]) =>
                LET par == ctxParent'[ChildCtx[s]]
                IN  ctxErr'[par] = ctxErr[par] /\ ctxCause'[par] = ctxCause[par]
       /\ \A t \in Roots :
            (ctxErr'[t] # ctxErr[t] \/ ctxCause'[t] # ctxCause[t]) =>
                hBy'[t] \in {"caller", "deadline"}]_vars

\* a signal ended a Wait and canceled a scope's context, the scope cleaned up
\* and returned, and the context both were given is not done
C18_Witness ==
    /\ pc["w1"] = "returned" /\ ret["w1"] \in Signals
    /\ pc["n1"] = "returned" /\ hBy["c1"] = "n1" /\ FromContext("c1")[2]
    /\ token["w1"] = "t1" /\ ctxParent["c1"] = "t1"
    /\ ~Done("t1") /\ ctxCause["t1"] = NilErr

\* C19: Wait never returns a signal raised before its own subscription was
\* registered: a call starts with an empty queue whatever its previous call
\* left queued, and the signal it returns is one raised after its Notify.
C19_FreshQueue ==
    /\ [](\A w \in Waiters :
            /\ (pc[w] = "select" /\ hRaised[w] = <<>>) => ch[w] = <<>>
            /\ (Returned(w) /\ ret[w] # "nil") =>
                    \E i \in DOMAIN hRaised[w] : hRaised[w][i] = ret[w])
    /\ [][\A w \in Waiters :
            (pc[w] = "idle" /\ pc'[w] = "select") => ch'[w] = <<>>]_vars

\* SIGINT was raised before the Notify of w1's call, with w2 subscribed, and
\* SIGTERM after it: the call of w1 returned SIGTERM
C19_Witness ==
    /\ pc["w2"] = "select" /\ args["w2"] = {}
    /\ hRaised["w2"] = <<"SIGINT", "SIGTERM">> /\ ch["w2"] = <<"SIGINT">>
    /\ pc["w1"] = "returned" /\ args["w1"] = {}
    /\ hRaised["w1"] = <<"SIGTERM">> /\ ret["w1"] = "SIGTERM"
====
